---- MODULE Spec2Model ----
(***************************************************************************)
(* Incremental outline generation of llm/scripts/generate_outline.py:      *)
(* process_csv_file plans blocks of chapters over the notes CSV,           *)
(* reconciles them with the block cache CSV (reuse / replace / fresh /     *)
(* obsolete), calls the generator for the replace and fresh blocks, saves  *)
(* the cache and assembles the final document from the saved cache.        *)
(***************************************************************************)
EXTENDS Integers, Sequences, FiniteSets, TLC

(* ------------------------------ bounds --------------------------------- *)

\* The threshold of process_csv_file (min_notes_per_group = 50 at line 610),
\* scaled down so that blocks of a few notes cross it.
min_notes_per_group == 2

\* Largest number of rows of the notes CSV.
MaxRows == 3

\* Largest number of runs of process_csv_file.
MaxRuns == 3

\* Largest number of changes to the notes CSV after it was first fetched.
MaxEdits == 2

\* Largest number of rows of a notes CSV given to the planner as a whole.
PlanMaxRows == 4

\* Largest max_retries given to generate_outline (the default is 3, line 105).
MaxRetries == 3

\* Largest number of rows of a block cache found on disk.
StoreMaxRows == 2

\* Largest number of runs of process_guidebook_async.
MaxGuidebookRuns == 2

\* Largest concurrency given to process_guidebook_async (the default is 10,
\* line 263 of generate_guidebook.py).
MaxConcurrency == 2

(* --------------------------- input alphabets --------------------------- *)

\* chapterUid column values of the notes CSV.
ChapterUids == {"1", "2"}

\* noteId column values; "" is the column being absent or empty (the notes
\* CSV written by merge_notes has no noteId column, the id of a note is then
\* its createTime), "1-1-1" is an id that contains the delimiter of block_id.
NoteIds == {"", "1-1-1"}

\* createTime column values.
CreateTimes == {"1"}

\* Outcomes of one generate_outline call: accepted content or the failure
\* placeholder.
Outcomes == {"ok", "failed"}

(* ------------------------- strings and parsing ------------------------- *)

\* str.strip() on the strings of the model: the only whitespace string is " ".
Strip(s) == IF s = " " THEN "" ELSE s

\* int(s) for the decimal strings of the model; a string outside the domain
\* raises ValueError.
IntOf == ("0" :> 0) @@ ("1" :> 1) @@ ("2" :> 2) @@ ("3" :> 3)

\* str.isdigit()
IsDigit(s) == s \in DOMAIN IntOf

\* Python's ordering of the strings that occur as note ids (ascending).
StrOrder == <<"", "0", "1", "1-1-1", "2", "3", "x">>

StrRank(s) == CHOOSE i \in 1..Len(StrOrder) : StrOrder[i] = s

\* sorted()/list.sort(): a stable sort of a sequence of [k, v] by integer k.
\* The element at position i moves behind the elements with a smaller key and
\* behind the earlier elements with an equal key.
StableSort(s) ==
    [p \in 1..Len(s) |->
        s[CHOOSE i \in 1..Len(s) :
            Cardinality({j \in 1..Len(s) :
                            \/ s[j].k < s[i].k
                            \/ s[j].k = s[i].k /\ j <= i}) = p]]

Values(s) == [i \in 1..Len(s) |-> s[i].v]

RECURSIVE Flatten(_)
Flatten(ss) == IF ss = <<>> THEN <<>> ELSE Head(ss) \o Flatten(Tail(ss))

RECURSIVE SortedInts(_)
SortedInts(S) ==
    IF S = {} THEN <<>>
    ELSE LET m == CHOOSE x \in S : \A y \in S : x <= y
         IN <<m>> \o SortedInts(S \ {m})

(* ------------------------------ the planner ---------------------------- *)

\* read_csv_file: keeps the rows whose markText is not blank.
read_csv_file(file) == SelectSeq(file, LAMBDA row : Strip(row.markText) # "")

\* group_by_chapters: rows grouped by int(chapterUid) in file order; rows whose
\* chapterUid is empty or does not parse are skipped.
RowChapter(row) == IntOf[Strip(row.chapterUid)]

HasChapter(row) == Strip(row.chapterUid) # "" /\ IsDigit(Strip(row.chapterUid))

group_by_chapters(rows) ==
    LET uids == {RowChapter(rows[i]) : i \in {n \in 1..Len(rows) : HasChapter(rows[n])}}
    IN [uid \in uids |->
           SelectSeq(rows, LAMBDA row : HasChapter(row) /\ RowChapter(row) = uid)]

\* The sort key of a chapter's rows (line 693).
CreateTimeKey(row) ==
    IF IsDigit(Strip(row.createTime)) THEN IntOf[Strip(row.createTime)] ELSE 0

chapter_rows_sorted(chapter_rows) ==
    Values(StableSort([i \in 1..Len(chapter_rows) |->
               [k |-> CreateTimeKey(chapter_rows[i]), v |-> chapter_rows[i]]]))

\* notes_count of a chapter (line 668).
notes_count(chapter_rows) ==
    Len(SelectSeq(chapter_rows, LAMBDA row : Strip(row.markText) # ""))

\* GroupEnd with the loop test total_notes <= min_notes_per_group: a group
\* that has just reached the minimum takes one more chapter.
RECURSIVE GroupEnd_PastThreshold(_, _, _, _)
GroupEnd_PastThreshold(chapters_dict, chapter_uids, j, total_notes) ==
    IF j <= Len(chapter_uids) /\ total_notes <= min_notes_per_group
    THEN GroupEnd_PastThreshold(chapters_dict, chapter_uids, j + 1,
                  total_notes + notes_count(chapters_dict[chapter_uids[j]]))
    ELSE [j |-> j, total_notes |-> total_notes]

\* The inner while loop (lines 663-672): from position j with total_notes
\* counted so far, the position after the last chapter of the group and the
\* total.
RECURSIVE GroupEnd(_, _, _, _)
GroupEnd(chapters_dict, chapter_uids, j, total_notes) ==
    IF j <= Len(chapter_uids) /\ total_notes < min_notes_per_group
    THEN GroupEnd(chapters_dict, chapter_uids, j + 1,
                  total_notes + notes_count(chapters_dict[chapter_uids[j]]))
    ELSE [j |-> j, total_notes |-> total_notes]

\* note_id of a row (line 704).
NoteIdOf(row) ==
    IF Strip(row.noteId) # "" THEN Strip(row.noteId) ELSE Strip(row.createTime)

\* The ids recorded by lines 699-708 over the chapters of a group, in order.
GroupNoteIds(chapters_dict, group_chapters) ==
    LET marked == SelectSeq(
            Flatten([n \in 1..Len(group_chapters) |->
                        chapter_rows_sorted(chapters_dict[group_chapters[n]])]),
            LAMBDA row : Strip(row.markText) # "")
        ids == [n \in 1..Len(marked) |-> NoteIdOf(marked[n])]
    IN SelectSeq(ids, LAMBDA id : id # "")

\* mark_notes_parts: per chapter its title, then one bullet per marked row.
MarkNotesParts(chapters_dict, group_chapters) ==
    Flatten([n \in 1..Len(group_chapters) |->
        <<[title |-> group_chapters[n]]>> \o
        SelectSeq(chapter_rows_sorted(chapters_dict[group_chapters[n]]),
                  LAMBDA row : Strip(row.markText) # "")])

\* block_id (line 722): the four boundary fields joined by "-".
BlockId(start_chapter, first_note_id, end_chapter, last_note_id) ==
    ToString(start_chapter) \o "-" \o first_note_id \o "-" \o
    ToString(end_chapter) \o "-" \o last_note_id

\* One block definition (lines 677-737); ids = <<>> is first_note_id = None.
BlockDef(chapters_dict, group_chapters, group_idx, total_notes) ==
    LET ids == GroupNoteIds(chapters_dict, group_chapters)
        first_note_id == IF ids = <<>> THEN "" ELSE ids[1]
        last_note_id == IF ids = <<>> THEN "" ELSE ids[Len(ids)]
        start_chapter == group_chapters[1]
        end_chapter == group_chapters[Len(group_chapters)]
    IN [group_idx |-> group_idx,
        block_id |-> BlockId(start_chapter,
                             IF first_note_id = "" THEN "0" ELSE first_note_id,
                             end_chapter,
                             IF last_note_id = "" THEN "0" ELSE last_note_id),
        start_chapter |-> start_chapter,
        end_chapter |-> end_chapter,
        start_note_id |-> first_note_id,
        end_note_id |-> last_note_id,
        group_chapters |-> group_chapters,
        mark_notes_parts |-> MarkNotesParts(chapters_dict, group_chapters),
        total_notes |-> total_notes]

\* PlanFrom with i = j + 1 after a group: the chapter after each group is
\* left out.
RECURSIVE PlanFrom_SkipChapter(_, _, _, _)
PlanFrom_SkipChapter(chapters_dict, chapter_uids, i, group_idx) ==
    IF i > Len(chapter_uids) THEN <<>>
    ELSE LET e == GroupEnd(chapters_dict, chapter_uids, i, 0)
         IN <<BlockDef(chapters_dict, SubSeq(chapter_uids, i, e.j - 1),
                       group_idx + 1, e.total_notes)>>
            \o PlanFrom_SkipChapter(chapters_dict, chapter_uids, e.j + 1, group_idx + 1)

\* The outer while loop (lines 654-739).
RECURSIVE PlanFrom(_, _, _, _)
PlanFrom(chapters_dict, chapter_uids, i, group_idx) ==
    IF i > Len(chapter_uids) THEN <<>>
    ELSE LET e == GroupEnd(chapters_dict, chapter_uids, i, 0)
         IN <<BlockDef(chapters_dict, SubSeq(chapter_uids, i, e.j - 1),
                       group_idx + 1, e.total_notes)>>
            \o PlanFrom(chapters_dict, chapter_uids, e.j, group_idx + 1)

\* all_block_definitions for the rows returned by read_csv_file.
PlanBlocks(rows) ==
    LET chapters_dict == group_by_chapters(rows)
        chapter_uids == SortedInts(DOMAIN chapters_dict)
    IN PlanFrom(chapters_dict, chapter_uids, 1, 0)

(* ------------------------------ the block cache ------------------------ *)

\* A dict keyed by block_id, in insertion order: d[key] = value.
HasBlock(d, block_id) == \E i \in 1..Len(d) : d[i].block_id = block_id

GetBlock(d, block_id) == d[CHOOSE i \in 1..Len(d) : d[i].block_id = block_id]

DictPut(d, e) ==
    IF HasBlock(d, e.block_id)
    THEN [i \in 1..Len(d) |-> IF d[i].block_id = e.block_id THEN e ELSE d[i]]
    ELSE Append(d, e)

\* Loading the cache (lines 623-648): existing_blocks and existing_blocks_info,
\* one entry per block_id; the boundary fields come from their own columns.
RECURSIVE LoadBlocks(_)
LoadBlocks(file) ==
    IF file = <<>> THEN <<>>
    ELSE LET before == LoadBlocks(SubSeq(file, 1, Len(file) - 1))
             row == file[Len(file)]
         IN IF Strip(row.block_id) = "" THEN before
            ELSE DictPut(before,
                   [block_id |-> Strip(row.block_id),
                    html |-> row.html,
                    markdown |-> row.markdown,
                    created_at |-> row.created_at,
                    updated_at |-> row.updated_at,
                    start_chapter |-> Strip(row.start_chapter),
                    start_note_id |-> Strip(row.start_note_id),
                    end_chapter |-> Strip(row.end_chapter),
                    end_note_id |-> Strip(row.end_note_id)])

\* start_key = f"{start_chapter}-{start_note_id}" (lines 755, 784, 809, 990).
StartKey(start_chapter, start_note_id) == start_chapter \o "-" \o start_note_id

\* StoredStartKey recovered from block_id.split("-"): the start chapter and
\* the text up to the next "-", which is only the first part of a note id
\* that contains "-".
StoredStartKey_FromBlockId(e) ==
    StartKey(e.start_chapter,
             IF e.start_note_id = "1-1-1" THEN "1" ELSE e.start_note_id)

StoredStartKey(e) == StartKey(e.start_chapter, e.start_note_id)

PlannedStartKey(block_def) ==
    StartKey(ToString(block_def.start_chapter), block_def.start_note_id)

\* existing_blocks_by_start[start_key] (lines 746-764), in iteration order of
\* existing_blocks.
existing_blocks_by_start(existing, start_key) ==
    SelectSeq(existing, LAMBDA e : StoredStartKey(e) = start_key)

\* Classify without the second test: a block without an exact match is always
\* generated as new.
Classify_NoOverwrite(block_def, existing) ==
    IF HasBlock(existing, block_def.block_id) THEN "cache" ELSE "generate"

\* Classify that does not serve a failure placeholder from the cache: a
\* block whose stored record is a placeholder is generated again.
Classify_RetryFailed(block_def, existing) ==
    IF /\ HasBlock(existing, block_def.block_id)
       /\ GetBlock(existing, block_def.block_id).markdown.outcome # "failed"
    THEN "cache"
    ELSE IF existing_blocks_by_start(existing, PlannedStartKey(block_def)) # <<>>
         THEN "update"
         ELSE "generate"

\* The three-way classification of one planned block (lines 771-802).
Classify(block_def, existing) ==
    IF HasBlock(existing, block_def.block_id) THEN "cache"
    ELSE IF existing_blocks_by_start(existing, PlannedStartKey(block_def)) # <<>>
         THEN "update"
         ELSE "generate"

BlocksToUseCache(defs, existing) ==
    LET hit == SelectSeq(defs, LAMBDA b : Classify(b, existing) = "cache")
    IN [n \in 1..Len(hit) |-> GetBlock(existing, hit[n].block_id)]

BlocksToUpdate(defs, existing) ==
    LET hit == SelectSeq(defs, LAMBDA b : Classify(b, existing) = "update")
    IN [n \in 1..Len(hit) |->
          LET old == existing_blocks_by_start(existing, PlannedStartKey(hit[n]))[1]
          IN [new_block_def |-> hit[n],
              old_block_id |-> old.block_id,
              old_block_data |-> old]]

\* BlocksToGenerate that also takes the blocks found in the cache.
BlocksToGenerate_All(defs, existing) ==
    SelectSeq(defs, LAMBDA b : Classify(b, existing) \in {"generate", "cache"})

BlocksToGenerate(defs, existing) ==
    SelectSeq(defs, LAMBDA b : Classify(b, existing) = "generate")

\* new_block_start_keys (lines 804-810).
NewBlockStartKeys(defs) == {PlannedStartKey(defs[n]) : n \in 1..Len(defs)}

(* ------------------------------ generation ----------------------------- *)

\* The result of generator.generate_outline on the notes of a block at clock
\* reading t: either accepted content or the failure placeholder; both are
\* returned as a dict with 'markdown' and 'html'.
generate_outline(mark_notes_parts, outcome, t) ==
    [markdown |-> [format |-> "markdown", notes |-> mark_notes_parts,
                   outcome |-> outcome, call |-> t],
     html |-> [format |-> "html", notes |-> mark_notes_parts,
               outcome |-> outcome, call |-> t]]

\* FreshBlock that leaves created_at unset.
FreshBlock_NoCreatedAt(block_def, outcome, current_time) ==
    LET outline_result == generate_outline(block_def.mark_notes_parts, outcome, current_time)
    IN [block_id |-> block_def.block_id,
        start_chapter |-> block_def.start_chapter,
        end_chapter |-> block_def.end_chapter,
        start_note_id |-> block_def.start_note_id,
        end_note_id |-> block_def.end_note_id,
        markdown |-> outline_result.markdown,
        html |-> outline_result.html,
        created_at |-> 0,
        updated_at |-> current_time]

\* The record appended to new_blocks for a fresh block (lines 845-858).
FreshBlock(block_def, outcome, current_time) ==
    LET outline_result == generate_outline(block_def.mark_notes_parts, outcome, current_time)
    IN [block_id |-> block_def.block_id,
        start_chapter |-> block_def.start_chapter,
        end_chapter |-> block_def.end_chapter,
        start_note_id |-> block_def.start_note_id,
        end_note_id |-> block_def.end_note_id,
        markdown |-> outline_result.markdown,
        html |-> outline_result.html,
        created_at |-> current_time,
        updated_at |-> current_time]

\* UpdatedBlock that stamps created_at anew instead of keeping the old one.
UpdatedBlock_NewCreatedAt(update_info, outcome, current_time) ==
    LET block_def == update_info.new_block_def
        outline_result == generate_outline(block_def.mark_notes_parts, outcome, current_time)
    IN [block_id |-> block_def.block_id,
        start_chapter |-> block_def.start_chapter,
        end_chapter |-> block_def.end_chapter,
        start_note_id |-> block_def.start_note_id,
        end_note_id |-> block_def.end_note_id,
        markdown |-> outline_result.markdown,
        html |-> outline_result.html,
        created_at |-> current_time,
        updated_at |-> current_time]

\* The record appended to new_blocks for a block that overwrites an old one
\* (lines 891-905): the old created_at is kept.
UpdatedBlock(update_info, outcome, current_time) ==
    LET block_def == update_info.new_block_def
        outline_result == generate_outline(block_def.mark_notes_parts, outcome, current_time)
    IN [block_id |-> block_def.block_id,
        start_chapter |-> block_def.start_chapter,
        end_chapter |-> block_def.end_chapter,
        start_note_id |-> block_def.start_note_id,
        end_note_id |-> block_def.end_note_id,
        markdown |-> outline_result.markdown,
        html |-> outline_result.html,
        created_at |-> update_info.old_block_data.created_at,
        updated_at |-> current_time]

\* NewBlocks that gives up at the first failed call: the blocks after it are
\* not generated.
NewBlocks_StopAtFailure(to_generate, to_update, outcomes, clock) ==
    LET total == Len(to_generate) + Len(to_update)
        failed == {n \in 1..total : outcomes[n] = "failed"}
        last == IF failed = {} THEN total
                ELSE CHOOSE n \in failed : \A m \in failed : n <= m
    IN [n \in 1..last |->
           IF n <= Len(to_generate)
           THEN FreshBlock(to_generate[n], outcomes[n], clock + n)
           ELSE UpdatedBlock(to_update[n - Len(to_generate)], outcomes[n], clock + n)]

\* new_blocks after the third and fourth step (lines 822-910): the fresh
\* blocks first, then the overwriting ones; every call reads the clock once.
NewBlocks(to_generate, to_update, outcomes, clock) ==
    [n \in 1..(Len(to_generate) + Len(to_update)) |->
        IF n <= Len(to_generate)
        THEN FreshBlock(to_generate[n], outcomes[n], clock + n)
        ELSE UpdatedBlock(to_update[n - Len(to_generate)], outcomes[n], clock + n)]

(* ------------------------------ saving --------------------------------- *)

\* A row as csv.DictWriter writes it: the chapter numbers become strings.
CsvRow(new_block) ==
    [new_block EXCEPT !.start_chapter = ToString(new_block.start_chapter),
                      !.end_chapter = ToString(new_block.end_chapter)]

\* KeptBlocks without the test of start_key against new_block_start_keys.
KeptBlocks_NoStartKeyTest(existing, old_block_ids_to_remove, new_block_start_keys, current_time) ==
    LET kept == SelectSeq(existing, LAMBDA e :
                    e.block_id \notin old_block_ids_to_remove)
    IN [n \in 1..Len(kept) |->
          [block_id |-> kept[n].block_id,
           start_chapter |-> kept[n].start_chapter,
           end_chapter |-> kept[n].end_chapter,
           start_note_id |-> kept[n].start_note_id,
           end_note_id |-> kept[n].end_note_id,
           markdown |-> kept[n].markdown,
           html |-> kept[n].html,
           created_at |-> kept[n].created_at,
           updated_at |-> current_time]]

\* The existing blocks carried forward (lines 981-1009): not the overwritten
\* ones, not the ones whose start_key no planned block has; updated_at is
\* refreshed.
KeptBlocks(existing, old_block_ids_to_remove, new_block_start_keys, current_time) ==
    LET kept == SelectSeq(existing, LAMBDA e :
                    /\ e.block_id \notin old_block_ids_to_remove
                    /\ StoredStartKey(e) \in new_block_start_keys)
    IN [n \in 1..Len(kept) |->
          [block_id |-> kept[n].block_id,
           start_chapter |-> kept[n].start_chapter,
           end_chapter |-> kept[n].end_chapter,
           start_note_id |-> kept[n].start_note_id,
           end_note_id |-> kept[n].end_note_id,
           markdown |-> kept[n].markdown,
           html |-> kept[n].html,
           created_at |-> kept[n].created_at,
           updated_at |-> current_time]]

RECURSIVE PutAll(_, _)
PutAll(d, blocks) ==
    IF blocks = <<>> THEN d
    ELSE PutAll(DictPut(d, CsvRow(Head(blocks))), Tail(blocks))

\* all_blocks_to_save (lines 972-1021).
AllBlocksToSave(existing, to_update, defs, new, current_time) ==
    PutAll(KeptBlocks(existing,
                      {to_update[n].old_block_id : n \in 1..Len(to_update)},
                      NewBlockStartKeys(defs), current_time),
           new)

\* The sort key of lines 1036-1039 and 1068-1071, the pair (number of the start
\* chapter, start_note_id) in lexicographic order, as one integer.
BlockSortKey(block) ==
    (IF IsDigit(block.start_chapter) THEN IntOf[block.start_chapter] ELSE 0)
        * (Len(StrOrder) + 1)
    + StrRank(block.start_note_id)

sorted_blocks(blocks) ==
    Values(StableSort([i \in 1..Len(blocks) |->
               [k |-> BlockSortKey(blocks[i]), v |-> blocks[i]]]))

(* ------------------------------ the state ------------------------------ *)

VARIABLES
    notes_csv,              \* the rows of the notes CSV of the book
    cache_csv_file,         \* the rows of <book_id>_outline_blocks.csv
    cache_exists,           \* cache_csv_file.exists()
    now,                    \* the last reading of the clock
    edits,                  \* the number of changes made to the notes CSV
    runs,                   \* the number of runs of process_csv_file
    pc,                     \* "idle", "done" after a run that returned,
                            \* "interrupted" after a KeyboardInterrupt
    started_at,             \* the reading of the clock when the run started
    rows,                   \* the rows read by the run
    prev_rows,              \* the rows read by the run before it, <<>> if the
                            \* notes changed in between or there was none
    cache_existed,          \* cache_csv_file.exists() at line 625 of the run
    cache_at_start,         \* the rows of the cache file when the run started
    load_failed,            \* the except branch of line 647 was taken
    save_failed,            \* the except branch of line 1055 was taken
    existing_blocks,        \* the cache as loaded by the run
    all_block_definitions,  \* the planned blocks of the run
    blocks_to_use_cache,
    blocks_to_update,
    blocks_to_generate,
    new_blocks,
    generate_calls,         \* block_ids passed to generate_outline, in order
    all_blocks_to_save,     \* the rows the run set out to write to the cache
    all_blocks_sorted,      \* the blocks the final document is built from
    all_markdown_parts_from_csv, \* the sections of the final document
    generator,              \* one generate_outline call of OutlineGenerator
    guidebook               \* process_guidebook_async of generate_guidebook.py:
                            \* its output file and the locals of its last run

vars == <<notes_csv, cache_csv_file, cache_exists, now, edits, runs, pc, started_at,
          rows, prev_rows, cache_existed, cache_at_start, load_failed, save_failed,
          existing_blocks, all_block_definitions, blocks_to_use_cache,
          blocks_to_update, blocks_to_generate, new_blocks, generate_calls,
          all_blocks_to_save, all_blocks_sorted, all_markdown_parts_from_csv,
          generator, guidebook>>

\* Rows of the notes CSV of the book.
NoteRows ==
    [chapterUid : ChapterUids, noteId : NoteIds, createTime : CreateTimes,
     markText : {"t"}]

\* merge_notes writes the notes sorted by createTime (stable).
merge_notes(notes) ==
    Values(StableSort([i \in 1..Len(notes) |->
               [k |-> CreateTimeKey(notes[i]), v |-> notes[i]]]))

SeqsUpTo(S, n) == UNION {[1..m -> S] : m \in 0..n}

\* No generate_outline call is being followed attempt by attempt.
NoCall == [status |-> "none"]

\* process_guidebook_async is not being followed.
NoGuidebook == [status |-> "none"]

\* The locals of process_csv_file do not outlive the process.
NoRun ==
    /\ pc = "idle"
    /\ started_at = 0
    /\ rows = <<>>
    /\ prev_rows = <<>>
    /\ cache_existed = FALSE
    /\ cache_at_start = <<>>
    /\ load_failed = FALSE
    /\ save_failed = FALSE
    /\ existing_blocks = <<>>
    /\ all_block_definitions = <<>>
    /\ blocks_to_use_cache = <<>>
    /\ blocks_to_update = <<>>
    /\ blocks_to_generate = <<>>
    /\ new_blocks = <<>>
    /\ generate_calls = <<>>
    /\ all_blocks_to_save = <<>>
    /\ all_blocks_sorted = <<>>
    /\ all_markdown_parts_from_csv = <<>>

\* The notes CSV as first fetched, no block cache yet (cold start).
Init ==
    /\ notes_csv \in {merge_notes(n) : n \in SeqsUpTo(NoteRows, MaxRows)}
    /\ cache_csv_file = <<>>
    /\ cache_exists = FALSE
    /\ now = 0
    /\ edits = 0
    /\ runs = 0
    /\ generator = NoCall
    /\ guidebook = NoGuidebook
    /\ NoRun

\* The process has ended: its locals are gone.
ProcessEnds ==
    /\ pc' = "idle"
    /\ started_at' = 0
    /\ rows' = <<>>
    /\ prev_rows' = <<>>
    /\ cache_existed' = FALSE
    /\ cache_at_start' = <<>>
    /\ load_failed' = FALSE
    /\ save_failed' = FALSE
    /\ existing_blocks' = <<>>
    /\ all_block_definitions' = <<>>
    /\ blocks_to_use_cache' = <<>>
    /\ blocks_to_update' = <<>>
    /\ blocks_to_generate' = <<>>
    /\ new_blocks' = <<>>
    /\ generate_calls' = <<>>
    /\ all_blocks_to_save' = <<>>
    /\ all_blocks_sorted' = <<>>
    /\ all_markdown_parts_from_csv' = <<>>

(* ------------------------------ the notes ------------------------------ *)

InsertAt(s, pos, x) == SubSeq(s, 1, pos - 1) \o <<x>> \o SubSeq(s, pos, Len(s))

RemoveAt(s, pos) == SubSeq(s, 1, pos - 1) \o SubSeq(s, pos + 1, Len(s))

\* A highlight is added and the notes CSV is written again.
AddNote ==
    /\ Len(notes_csv) < MaxRows
    /\ edits < MaxEdits
    /\ \E row \in NoteRows, pos \in 1..(Len(notes_csv) + 1) :
          notes_csv' = merge_notes(InsertAt(notes_csv, pos, row))
    /\ edits' = edits + 1
    /\ ProcessEnds
    /\ UNCHANGED <<cache_csv_file, cache_exists, now, runs, generator, guidebook>>

\* A highlight is removed and the notes CSV is written again.
RemoveNote ==
    /\ edits < MaxEdits
    /\ \E pos \in 1..Len(notes_csv) :
          notes_csv' = merge_notes(RemoveAt(notes_csv, pos))
    /\ edits' = edits + 1
    /\ ProcessEnds
    /\ UNCHANGED <<cache_csv_file, cache_exists, now, runs, generator, guidebook>>

(* ------------------------------ one run -------------------------------- *)

\* What goes wrong during a run: nothing, a generate_outline call that ends
\* with the failure placeholder, an exception while the cache file
\* is read (k rows were loaded before it), an exception when the cache file is
\* opened for writing or after k rows were written, or a KeyboardInterrupt
\* during the generation (k calls had returned), during the save (k rows were
\* written) or after the save.
NoFault == [kind |-> "none", k |-> 0]

Interrupts == {"interrupt_generation", "interrupt_save", "interrupt_assembly"}

\* The first k elements of a sequence, all of it if it is shorter.
Prefix(s, k) == SubSeq(s, 1, IF k < Len(s) THEN k ELSE Len(s))

\* The test of line 967 without new_blocks.
ShouldSave_OnlyExisting(new, existing) == existing # <<>>

\* The test of line 967.
ShouldSave(new, existing) == new # <<>> \/ existing # <<>>

\* The sections built from the rows of the cache (lines 1091-1105).
Sections(blocks) ==
    [n \in 1..Len(blocks) |->
        [group_idx_from_csv |-> n,
         start_chapter |-> blocks[n].start_chapter,
         end_chapter |-> blocks[n].end_chapter,
         markdown |-> blocks[n].markdown,
         html |-> blocks[n].html]]

\* The first step that numbers the groups after the rows already in the cache
\* file.
FirstStep_AfterCache(read) ==
    LET defs == PlanBlocks(read)
    IN [n \in 1..Len(defs) |->
           [defs[n] EXCEPT !.group_idx = @ + Len(cache_csv_file)]]

\* The first step of the run (lines 650-741): the blocks are planned from the
\* rows alone.
FirstStep(read) == PlanBlocks(read)

\* process_csv_file from reading the notes (line 572) to the end of the
\* function (line 1158) or to the exception that leaves it, under a fault;
\* every generate_outline call ends with one of the outcomes in outs.
Run(fault, outs) ==
    /\ \E read \in {read_csv_file(notes_csv)},
          loaded \in {IF fault.kind = "load_error"
                      THEN Prefix(cache_csv_file, fault.k)
                      ELSE cache_csv_file} :
       \E existing \in {LoadBlocks(loaded)} :
        /\ read # <<>>
        /\ \E defs \in {FirstStep(read)} :
           \E to_cache \in {BlocksToUseCache(defs, existing)},
              to_update \in {BlocksToUpdate(defs, existing)},
              to_generate \in {BlocksToGenerate(defs, existing)} :
           \E calls \in {Len(to_generate) + Len(to_update)} :
           \E outcomes \in [1..calls -> outs] :
           \E returned \in {IF fault.kind = "interrupt_generation"
                            THEN fault.k ELSE calls} :
           \E new \in {Prefix(NewBlocks(to_generate, to_update, outcomes, now),
                              returned)} :
           \E saving \in {fault.kind # "interrupt_generation" /\ ShouldSave(new, existing)} :
           \E to_save \in {IF saving
                           THEN sorted_blocks(AllBlocksToSave(existing, to_update, defs,
                                                              new, now + calls + 1))
                           ELSE <<>>} :
           \E opened \in {saving /\ fault.kind # "save_open_error"} :
           \E file \in {IF ~opened THEN cache_csv_file
                        ELSE IF fault.kind \in {"save_write_error", "interrupt_save"}
                             THEN Prefix(to_save, fault.k)
                             ELSE to_save} :
              /\ fault.kind = "load_error" => cache_exists /\ fault.k <= Len(cache_csv_file)
              /\ fault.kind = "interrupt_generation" => fault.k < calls
              /\ fault.kind = "save_open_error" => saving
              /\ fault.kind \in {"save_write_error", "interrupt_save"} =>
                    saving /\ fault.k < Len(to_save)
              /\ fault.kind = "generation_failure" =>
                    \E n \in 1..calls : outcomes[n] = "failed"
              /\ new_blocks' = new
              /\ all_blocks_to_save' = to_save
              /\ cache_csv_file' = file
              /\ cache_exists' = (cache_exists \/ opened)
              /\ all_blocks_sorted' =
                    IF fault.kind \notin Interrupts /\ (cache_exists \/ opened)
                    THEN sorted_blocks(file) ELSE <<>>
              /\ all_markdown_parts_from_csv' =
                    IF fault.kind \notin Interrupts /\ (cache_exists \/ opened)
                    THEN Sections(sorted_blocks(file)) ELSE <<>>
              /\ now' = IF fault.kind = "interrupt_generation" THEN now + returned
                        ELSE IF saving THEN now + calls + 1 ELSE now + calls
              /\ rows' = read
              /\ existing_blocks' = existing
              /\ all_block_definitions' = defs
              /\ blocks_to_use_cache' = to_cache
              /\ blocks_to_update' = to_update
              /\ blocks_to_generate' = to_generate
              /\ generate_calls' =
                   [n \in 1..(IF fault.kind = "interrupt_generation"
                              THEN returned + 1 ELSE calls) |->
                       IF n <= Len(to_generate) THEN to_generate[n].block_id
                       ELSE to_update[n - Len(to_generate)].new_block_def.block_id]
    /\ runs' = runs + 1
    /\ pc' = IF fault.kind \in Interrupts THEN "interrupted" ELSE "done"
    /\ started_at' = now
    /\ prev_rows' = IF pc = "done" THEN rows ELSE <<>>
    /\ cache_existed' = cache_exists
    /\ cache_at_start' = cache_csv_file
    /\ load_failed' = (fault.kind = "load_error")
    /\ save_failed' = (fault.kind \in {"save_open_error", "save_write_error"})
    /\ UNCHANGED <<notes_csv, edits, generator, guidebook>>

\* A run in which nothing goes wrong and the generator answers every call
\* with content that is accepted.
process_csv_file ==
    /\ runs < MaxRuns
    /\ Run(NoFault, {"ok"})

Next == AddNote \/ RemoveNote \/ process_csv_file

Spec == Init /\ [][Next]_vars

(* ----------------------- runs in which things go wrong ----------------- *)

\* A run in which at least one generate_outline call returns the failure
\* placeholder.
generation_fails ==
    /\ runs < MaxRuns
    /\ Run([kind |-> "generation_failure", k |-> 0], Outcomes)

\* A run in which reading the cache file raises (lines 627-648) after k rows
\* were loaded.
cache_read_fails ==
    /\ runs < MaxRuns
    /\ cache_exists
    /\ \E k \in 0..Len(cache_csv_file) :
          Run([kind |-> "load_error", k |-> k], {"ok"})

\* A run in which saving the cache raises (lines 1031-1056): open() fails, or
\* a write fails after k rows.
cache_save_fails ==
    /\ runs < MaxRuns
    /\ \/ Run([kind |-> "save_open_error", k |-> 0], {"ok"})
       \/ \E k \in 0..MaxRows :
             Run([kind |-> "save_write_error", k |-> k], {"ok"})

\* A run stopped by the user (lines 1216-1218): during the k + 1-th
\* generate_outline call, during the save after k rows were written, or
\* after the save.
KeyboardInterrupt ==
    /\ runs < MaxRuns
    /\ \/ \E k \in 0..MaxRows :
             Run([kind |-> "interrupt_generation", k |-> k], {"ok"})
       \/ \E k \in 0..MaxRows :
             Run([kind |-> "interrupt_save", k |-> k], {"ok"})
       \/ Run([kind |-> "interrupt_assembly", k |-> 0], {"ok"})

NextFaults ==
    \/ process_csv_file
    \/ generation_fails
    \/ cache_read_fails
    \/ cache_save_fails
    \/ KeyboardInterrupt

\* Runs from the cold start on notes that do not change, with everything that
\* can go wrong in a run.
SpecFaults == Init /\ [][NextFaults]_vars

\* Runs from the cold start on notes of which some are removed in between,
\* in which nothing goes wrong but the generation: any generate_outline call
\* may end with the failure placeholder.
NextFailures == RemoveNote \/ process_csv_file \/ generation_fails

SpecFailures == Init /\ [][NextFailures]_vars

(* --------------------- the planner on any notes CSV -------------------- *)

\* Rows of a notes CSV as the planner may find it: notes of three chapters in
\* any order of createTime, a note whose chapterUid is not a number, a note
\* whose createTime is not a number and a row without markText.
PlanNoteRows ==
    [chapterUid : {"1", "2", "3"}, noteId : {""}, createTime : {"1", "2"},
     markText : {"t"}]
    \cup {[chapterUid |-> "x", noteId |-> "", createTime |-> "1", markText |-> "t"],
          [chapterUid |-> "1", noteId |-> "", createTime |-> "x", markText |-> "t"],
          [chapterUid |-> "3", noteId |-> "", createTime |-> "1", markText |-> ""]}

InitPlan ==
    /\ notes_csv \in SeqsUpTo(PlanNoteRows, PlanMaxRows)
    /\ cache_csv_file = <<>>
    /\ cache_exists = FALSE
    /\ now = 0
    /\ edits = 0
    /\ runs = 0
    /\ generator = NoCall
    /\ guidebook = NoGuidebook
    /\ NoRun

\* The first run of the process over the files it finds.
first_run == pc = "idle" /\ process_csv_file

NextPlan == first_run

SpecPlan == InitPlan /\ [][NextPlan]_vars

(* ------------------- a block cache found on disk ----------------------- *)

\* Records of a block cache that this run did not write itself: each row is
\* consistent (its block_id is made of its four boundary fields), but several
\* rows may start at the same note.
StoredRows ==
    {[block_id |-> BlockId(IntOf[sc], sn, IntOf[ec], en),
      start_chapter |-> sc, end_chapter |-> ec,
      start_note_id |-> sn, end_note_id |-> en,
      markdown |-> [format |-> "markdown", notes |-> <<>>, outcome |-> "ok", call |-> 0],
      html |-> [format |-> "html", notes |-> <<>>, outcome |-> "ok", call |-> 0],
      created_at |-> 0, updated_at |-> 0] :
        sc \in {"1", "2"}, sn \in {"1"}, ec \in {"1", "2"}, en \in {"1", "1-1-1"}}

InitStore ==
    /\ notes_csv \in {merge_notes(n) : n \in SeqsUpTo(NoteRows, MaxRows)}
    /\ cache_csv_file \in
          {f \in SeqsUpTo(StoredRows, StoreMaxRows) :
              \A i, j \in 1..Len(f) : f[i].block_id = f[j].block_id => i = j}
    /\ cache_exists = TRUE
    /\ now = 0
    /\ edits = 0
    /\ runs = 0
    /\ generator = NoCall
    /\ guidebook = NoGuidebook
    /\ NoRun

\* The first run over the cache found on disk; a generate_outline call may end
\* with the failure placeholder.
first_run_on_store ==
    /\ pc = "idle"
    /\ runs < MaxRuns
    /\ Run(NoFault, Outcomes)

NextStore == first_run_on_store

SpecStore == InitStore /\ [][NextStore]_vars

(* ------------------- one generate_outline call ------------------------- *)

\* What one call of client.models.generate_content does: it returns HTML that
\* passes _validate_and_clean_html, it returns text that does not, or it
\* raises an exception.
Responses == {"html", "text", "error"}

\* generate_outline is entered (lines 117-122) with any max_retries up to
\* MaxRetries; responses is what the client will do at each of its calls.
InitRetry ==
    /\ generator \in
          [status : {"calling"},
           max_retries : 0..MaxRetries,
           responses : [1..(MaxRetries + 1) -> Responses],
           attempt : {0},
           calls : {0},
           last_error : {""},
           last_response_text : {""},
           result : {[outcome |-> "none"]}]
    /\ guidebook = NoGuidebook
    /\ notes_csv = <<>>
    /\ cache_csv_file = <<>>
    /\ cache_exists = FALSE
    /\ now = 0
    /\ edits = 0
    /\ runs = 0
    /\ NoRun

\* The dict returned by generate_outline.
OutlineResult(outcome, text) ==
    [outcome |-> outcome,
     markdown |-> [format |-> "markdown", text |-> text],
     html |-> [format |-> "html", text |-> text]]

\* generate_content whose loop makes one attempt more than max_retries.
generate_content_OneMore ==
    /\ generator.status = "calling"
    /\ generator.attempt <= generator.max_retries
    /\ LET response == generator.responses[generator.attempt + 1]
           called == [generator EXCEPT !.calls = @ + 1]
       IN generator' =
            IF response = "html"
            THEN [called EXCEPT !.status = "returned",
                                !.last_response_text = "html",
                                !.result = OutlineResult("ok", "html")]
            ELSE IF generator.attempt < generator.max_retries
                 THEN [called EXCEPT !.attempt = @ + 1,
                                     !.last_error = response,
                                     !.last_response_text =
                                         IF response = "text" THEN "text" ELSE @]
                 ELSE [called EXCEPT !.status = "returned",
                                     !.last_error = response,
                                     !.last_response_text =
                                         IF response = "text" THEN "text" ELSE @,
                                     !.result = OutlineResult("failed", response)]
    /\ UNCHANGED <<notes_csv, cache_csv_file, cache_exists, now, edits, runs, pc,
                   started_at, rows, prev_rows, cache_existed, cache_at_start,
                   load_failed, save_failed, existing_blocks, all_block_definitions,
                   blocks_to_use_cache, blocks_to_update, blocks_to_generate,
                   new_blocks, generate_calls, all_blocks_to_save,
                   all_blocks_sorted, all_markdown_parts_from_csv, guidebook>>

\* generate_content that, with its attempts used up, returns the text that
\* failed the validation as if it were the outline.
generate_content_AcceptsLast ==
    /\ generator.status = "calling"
    /\ generator.attempt < generator.max_retries
    /\ LET response == generator.responses[generator.attempt + 1]
           called == [generator EXCEPT !.calls = @ + 1]
       IN generator' =
            IF response = "html"
            THEN [called EXCEPT !.status = "returned",
                                !.last_response_text = "html",
                                !.result = OutlineResult("ok", "html")]
            ELSE IF generator.attempt < generator.max_retries - 1
                 THEN [called EXCEPT !.attempt = @ + 1,
                                     !.last_error = response,
                                     !.last_response_text =
                                         IF response = "text" THEN "text" ELSE @]
                 ELSE [called EXCEPT !.status = "returned",
                                     !.last_error = response,
                                     !.last_response_text =
                                         IF response = "text" THEN "text" ELSE @,
                                     !.result =
                                         IF response = "text"
                                         THEN OutlineResult("ok", "text")
                                         ELSE OutlineResult("failed", response)]
    /\ UNCHANGED <<notes_csv, cache_csv_file, cache_exists, now, edits, runs, pc,
                   started_at, rows, prev_rows, cache_existed, cache_at_start,
                   load_failed, save_failed, existing_blocks, all_block_definitions,
                   blocks_to_use_cache, blocks_to_update, blocks_to_generate,
                   new_blocks, generate_calls, all_blocks_to_save,
                   all_blocks_sorted, all_markdown_parts_from_csv, guidebook>>

\* One pass of the loop of lines 124-219: the client is called; valid HTML is
\* returned at once (173-180); after text that fails the validation (181-198)
\* or an exception (200-219) the loop goes on if attempts are left, otherwise
\* the failure placeholder is returned.
generate_content ==
    /\ generator.status = "calling"
    /\ generator.attempt < generator.max_retries
    /\ LET response == generator.responses[generator.attempt + 1]
           called == [generator EXCEPT !.calls = @ + 1]
       IN generator' =
            IF response = "html"
            THEN [called EXCEPT !.status = "returned",
                                !.last_response_text = "html",
                                !.result = OutlineResult("ok", "html")]
            ELSE IF generator.attempt < generator.max_retries - 1
                 THEN [called EXCEPT !.attempt = @ + 1,
                                     !.last_error = response,
                                     !.last_response_text =
                                         IF response = "text" THEN "text" ELSE @]
                 ELSE [called EXCEPT !.status = "returned",
                                     !.last_error = response,
                                     !.last_response_text =
                                         IF response = "text" THEN "text" ELSE @,
                                     !.result = OutlineResult("failed", response)]
    /\ UNCHANGED <<notes_csv, cache_csv_file, cache_exists, now, edits, runs, pc,
                   started_at, rows, prev_rows, cache_existed, cache_at_start,
                   load_failed, save_failed, existing_blocks, all_block_definitions,
                   blocks_to_use_cache, blocks_to_update, blocks_to_generate,
                   new_blocks, generate_calls, all_blocks_to_save,
                   all_blocks_sorted, all_markdown_parts_from_csv, guidebook>>

\* The loop ends without a return (lines 221-230): the failure placeholder.
loop_ends ==
    /\ generator.status = "calling"
    /\ generator.attempt >= generator.max_retries
    /\ generator' = [generator EXCEPT !.status = "returned",
                                      !.result = OutlineResult("failed", generator.last_error)]
    /\ UNCHANGED <<notes_csv, cache_csv_file, cache_exists, now, edits, runs, pc,
                   started_at, rows, prev_rows, cache_existed, cache_at_start,
                   load_failed, save_failed, existing_blocks, all_block_definitions,
                   blocks_to_use_cache, blocks_to_update, blocks_to_generate,
                   new_blocks, generate_calls, all_blocks_to_save,
                   all_blocks_sorted, all_markdown_parts_from_csv, guidebook>>

NextRetry == generate_content \/ loop_ends

\* The loop is not suspended for ever: every attempt returns or raises.
SpecRetry == InitRetry /\ [][NextRetry]_vars /\ WF_vars(NextRetry)

(* ------------- generate_guidebook.py: process_guidebook_async ----------- *)

\* The variables of the outline generation, which the guidebook leaves alone.
outline_vars ==
    <<notes_csv, cache_csv_file, cache_exists, now, edits, runs, pc, started_at,
      rows, prev_rows, cache_existed, cache_at_start, load_failed, save_failed,
      existing_blocks, all_block_definitions, blocks_to_use_cache,
      blocks_to_update, blocks_to_generate, new_blocks, generate_calls,
      all_blocks_to_save, all_blocks_sorted, all_markdown_parts_from_csv,
      generator>>

\* The bookmarkIds of the notes of the chapter, in the order of the notes CSV.
BookmarkIds == <<"a", "b", "c">>

\* A row of the notes CSV; the marked text of a note is its own.
GuidebookNote(bookmark_id) ==
    [bookmarkId |-> bookmark_id, markText |-> "text of " \o bookmark_id]

\* The notes CSV at the start of a run: any of the notes, in their order,
\* after a row without bookmarkId or not.
GuidebookNotesFiles ==
    {(IF blank THEN <<[bookmarkId |-> " ", markText |-> "t"]>> ELSE <<>>)
       \o [n \in 1..Cardinality(S) |-> GuidebookNote(BookmarkIds[SortedInts(S)[n]])] :
          S \in SUBSET (1..Len(BookmarkIds)), blank \in BOOLEAN}

\* read_notes_csv (lines 232-260): the rows with markText and bookmarkId.
read_notes_csv(file) ==
    SelectSeq(file, LAMBDA row : Strip(row.markText) # "" /\ Strip(row.bookmarkId) # "")

\* The outcomes of one generate_explanation_async call: the explanation, or
\* the error text of the except branch (lines 162-169).
CallOutcomes == {"ok", "error"}

\* The text returned for a marked text.
Explanation(mark_text, outcome) == [of |-> mark_text, outcome |-> outcome]

\* input_bookmark_ids (lines 350-354).
InputBookmarkIds(notes) == {Strip(notes[n].bookmarkId) : n \in 1..Len(notes)}

\* valid_output_rows (lines 376-384): the rows of the output file whose
\* bookmarkId is in the input.
ValidOutputRows(output_file, notes) ==
    SelectSeq(output_file, LAMBDA row :
        /\ Strip(row.bookmarkId) # ""
        /\ Strip(row.bookmarkId) \in InputBookmarkIds(notes))

\* note_indices (lines 404-424): the positions, from 1, of the notes that are
\* not yet in the output.
ValidNoteIndices(notes, existing_bookmark_ids) ==
    SelectSeq([n \in 1..Len(notes) |-> n], LAMBDA idx :
        /\ Strip(notes[idx].markText) # ""
        /\ Strip(notes[idx].bookmarkId) # ""
        /\ Strip(notes[idx].bookmarkId) \notin existing_bookmark_ids)

\* results_data.sort(key=lambda x: x[0]) (line 456): the results ordered by
\* their index.
SortedResults(results_data) ==
    Values(StableSort([n \in 1..Len(results_data) |->
                          [k |-> results_data[n][1], v |-> results_data[n]]]))

\* results (lines 458-482): the sorted results zipped with valid_notes.
ResultRows(sorted, valid_notes) ==
    [n \in 1..Len(sorted) |->
        [markText |-> Strip(valid_notes[n].markText),
         markTextIndex |-> sorted[n][1],
         bookmarkId |-> Strip(valid_notes[n].bookmarkId),
         explanation |-> sorted[n][2]]]

\* No run of process_guidebook_async yet, no output file.
InitGuidebook ==
    /\ guidebook = [status |-> "idle",
                    runs |-> 0,
                    output_file |-> <<>>,
                    output_exists |-> FALSE,
                    notes |-> <<>>,
                    concurrency |-> 0,
                    read_failed |-> FALSE,
                    existing_bookmark_ids |-> {},
                    valid_notes |-> <<>>,
                    note_indices |-> <<>>,
                    semaphore |-> 0,
                    tasks |-> <<>>,
                    completed |-> <<>>]
    /\ generator = NoCall
    /\ notes_csv = <<>>
    /\ cache_csv_file = <<>>
    /\ cache_exists = FALSE
    /\ now = 0
    /\ edits = 0
    /\ runs = 0
    /\ NoRun

\* process_guidebook_async from its start to asyncio.gather (lines 263-452)
\* over the notes CSV it finds, with the concurrency it is given; read_error
\* is the except branch of lines 399-401.
Begin(file, concurrency, read_error) ==
    /\ guidebook.status \in {"idle", "done"}
    /\ guidebook.runs < MaxGuidebookRuns
    /\ read_error => guidebook.output_exists
    /\ \E notes \in {read_notes_csv(file)} :
       \E valid_output_rows \in {ValidOutputRows(guidebook.output_file, notes)} :
       \E deleted_count \in {Len(guidebook.output_file) - Len(valid_output_rows)},
          existing_bookmark_ids \in
              {IF guidebook.output_exists /\ ~read_error
               THEN InputBookmarkIds(valid_output_rows) ELSE {}} :
       \E note_indices \in {ValidNoteIndices(notes, existing_bookmark_ids)} :
       \E valid_notes \in {[n \in 1..Len(note_indices) |-> notes[note_indices[n]]]},
          started \in {[guidebook EXCEPT
                          !.runs = @ + 1,
                          !.notes = notes,
                          !.concurrency = concurrency,
                          !.read_failed = read_error,
                          !.existing_bookmark_ids = {},
                          !.valid_notes = <<>>,
                          !.note_indices = <<>>,
                          !.semaphore = 0,
                          !.tasks = <<>>,
                          !.completed = <<>>]} :
       \E cleaned \in {[started EXCEPT
                          !.output_file =
                              IF guidebook.output_exists /\ ~read_error /\ deleted_count > 0
                              THEN valid_output_rows ELSE @,
                          !.existing_bookmark_ids = existing_bookmark_ids]} :
          guidebook' =
            IF notes = <<>>
            THEN [started EXCEPT !.status = "done"]
            ELSE IF valid_notes = <<>>
                 THEN [cleaned EXCEPT !.status = "done"]
                 ELSE [cleaned EXCEPT
                          !.status = "gathering",
                          !.valid_notes = valid_notes,
                          !.note_indices = note_indices,
                          !.semaphore = concurrency,
                          !.tasks = [n \in 1..Len(valid_notes) |->
                                        [state |-> "waiting", result |-> <<>>]]]
    /\ UNCHANGED outline_vars

\* A run in which the output file, if there is one, is read without error.
process_guidebook_async ==
    \E file \in GuidebookNotesFiles, concurrency \in 0..MaxConcurrency :
        Begin(file, concurrency, FALSE)

\* A run in which reading the output file raises.
output_read_fails ==
    \E file \in GuidebookNotesFiles, concurrency \in 0..MaxConcurrency :
        Begin(file, concurrency, TRUE)

\* process_with_semaphore that starts its call without the semaphore.
process_with_semaphore_NoLimit ==
    /\ guidebook.status = "gathering"
    /\ \E i \in 1..Len(guidebook.tasks) :
          /\ guidebook.tasks[i].state = "waiting"
          /\ guidebook' = [guidebook EXCEPT !.tasks[i].state = "calling"]
    /\ UNCHANGED outline_vars

\* A task enters `async with semaphore` (lines 442-445) and starts its
\* generate_explanation_async call.
process_with_semaphore ==
    /\ guidebook.status = "gathering"
    /\ guidebook.semaphore > 0
    /\ \E i \in 1..Len(guidebook.tasks) :
          /\ guidebook.tasks[i].state = "waiting"
          /\ guidebook' = [guidebook EXCEPT !.tasks[i].state = "calling",
                                            !.semaphore = @ - 1]
    /\ UNCHANGED outline_vars

\* generate_explanation_async that lets the exception of the client out:
\* asyncio.gather raises it and the run ends without results.
generate_explanation_async_Raises ==
    /\ guidebook.status = "gathering"
    /\ \E i \in 1..Len(guidebook.tasks), outcome \in CallOutcomes :
          /\ guidebook.tasks[i].state = "calling"
          /\ guidebook' =
               IF outcome = "error"
               THEN [guidebook EXCEPT !.status = "failed", !.semaphore = @ + 1]
               ELSE [guidebook EXCEPT
                        !.tasks[i] =
                            [state |-> "done",
                             result |-> <<guidebook.note_indices[i],
                                          Explanation(Strip(guidebook.valid_notes[i].markText),
                                                      outcome)>>],
                        !.completed = Append(@, i),
                        !.semaphore = @ + 1]
    /\ UNCHANGED outline_vars

\* A generate_explanation_async call ends (lines 99-169): it returns its index
\* with the explanation or, from the except branch, with the error text; the
\* semaphore is released.
generate_explanation_async ==
    /\ guidebook.status = "gathering"
    /\ \E i \in 1..Len(guidebook.tasks), outcome \in CallOutcomes :
          /\ guidebook.tasks[i].state = "calling"
          /\ guidebook' =
               [guidebook EXCEPT
                   !.tasks[i] =
                       [state |-> "done",
                        result |-> <<guidebook.note_indices[i],
                                     Explanation(Strip(guidebook.valid_notes[i].markText),
                                                 outcome)>>],
                   !.completed = Append(@, i),
                   !.semaphore = @ + 1]
    /\ UNCHANGED outline_vars

\* asyncio.gather returns the results in the order of the tasks (line 454);
\* the rows are built and appended to the output file (lines 456-525).
gather_returns ==
    /\ guidebook.status = "gathering"
    /\ \A i \in 1..Len(guidebook.tasks) : guidebook.tasks[i].state = "done"
    /\ \E results_data \in {[i \in 1..Len(guidebook.tasks) |-> guidebook.tasks[i].result]} :
       \E sorted \in {SortedResults(results_data)} :
       \E results \in {ResultRows(sorted, guidebook.valid_notes)} :
          guidebook' = [guidebook EXCEPT
                           !.status = "done",
                           !.output_file = @ \o results,
                           !.output_exists = TRUE]
    /\ UNCHANGED outline_vars

NextGuidebook ==
    \/ process_guidebook_async
    \/ output_read_fails
    \/ process_with_semaphore
    \/ generate_explanation_async
    \/ gather_returns

\* The steps of a run that is under way.
GuidebookProgress ==
    \/ process_with_semaphore
    \/ generate_explanation_async
    \/ gather_returns

SpecGuidebook == InitGuidebook /\ [][NextGuidebook]_vars

\* The output files one run leaves when it starts without an output file: no
\* file for an input without notes, else one row for each note in input order.
OutputsOfOneRun ==
    UNION {{ResultRows([n \in 1..Len(notes) |->
                           <<n, Explanation(Strip(notes[n].markText), outcomes[n])>>],
                       notes) :
               outcomes \in [1..Len(notes) -> CallOutcomes]} :
           notes \in {read_notes_csv(file) : file \in GuidebookNotesFiles}}

\* The last run of a sequence of runs is about to start: the earlier runs left
\* an output file or none.
InitBatch ==
    /\ guidebook \in {[status |-> "idle",
                        runs |-> MaxGuidebookRuns - 1,
                        output_file |-> output_file,
                        output_exists |-> output_file # <<>>,
                        notes |-> <<>>,
                        concurrency |-> 0,
                        read_failed |-> FALSE,
                        existing_bookmark_ids |-> {},
                        valid_notes |-> <<>>,
                        note_indices |-> <<>>,
                        semaphore |-> 0,
                        tasks |-> <<>>,
                        completed |-> <<>>] : output_file \in OutputsOfOneRun}
    /\ generator = NoCall
    /\ notes_csv = <<>>
    /\ cache_csv_file = <<>>
    /\ cache_exists = FALSE
    /\ now = 0
    /\ edits = 0
    /\ runs = 0
    /\ NoRun

\* One run under the event loop: the loop runs every task that can run, and
\* every call of the client returns or raises.
SpecBatch == InitBatch /\ [][NextGuidebook]_vars /\ WF_vars(GuidebookProgress)

(* ------------------------------ properties ----------------------------- *)

Range(s) == {s[i] : i \in 1..Len(s)}

BlockIds(blocks) == {blocks[i].block_id : i \in 1..Len(blocks)}

\* The rows of the saved cache with a given block_id.
SavedAs(block_id) == {r \in Range(cache_csv_file) : r.block_id = block_id}

\* A stored record starts where a planned block starts: the same start
\* chapter and the same start note id, each compared as a field.
SameStart(e, block_def) ==
    /\ e.start_chapter = ToString(block_def.start_chapter)
    /\ e.start_note_id = block_def.start_note_id

ExactMatch(block_def) == \E e \in Range(existing_blocks) : e.block_id = block_def.block_id

StartMatch(block_def) == \E e \in Range(existing_blocks) : SameStart(e, block_def)

IsReuse(block_def) == block_def.block_id \in BlockIds(blocks_to_use_cache)

IsReplace(block_def) ==
    \E n \in 1..Len(blocks_to_update) : blocks_to_update[n].new_block_def = block_def

IsFresh(block_def) == block_def \in Range(blocks_to_generate)

\* The run just finished read the same notes as the run before it, and the
\* notes were not changed in between.
SameNotesAgain == pc = "done" /\ prev_rows # <<>> /\ prev_rows = rows

\* C1 (reuse stability): when process_csv_file runs twice on the same notes,
\* the second run classifies every planned block as cache reuse, overwrites
\* and generates nothing and never calls generate_outline.
C1_ReuseStability ==
    SameNotesAgain =>
        /\ blocks_to_update = <<>>
        /\ blocks_to_generate = <<>>
        /\ generate_calls = <<>>
        /\ \A b \in Range(all_block_definitions) : IsReuse(b)

\* C2 (reuse only of identical blocks): a planned block served from the cache
\* has exactly the member notes the stored record was generated from.
C2_ReuseOnlyIdentical ==
    pc = "done" =>
        \A b \in Range(all_block_definitions) :
            IsReuse(b) =>
                GetBlock(existing_blocks, b.block_id).markdown.notes = b.mark_notes_parts

\* C3 (replace classification): a planned block without an exact match but
\* with a stored record of the same start is overwritten, never generated as
\* new; the old block_id leaves the saved cache and the new one enters it;
\* every planned block with an exact match is served from the cache.
C3_ReplaceClassification ==
    pc = "done" =>
        \A b \in Range(all_block_definitions) :
            /\ (~ExactMatch(b) /\ StartMatch(b)) =>
                  /\ IsReplace(b)
                  /\ ~IsFresh(b)
                  /\ \A e \in Range(existing_blocks) :
                        SameStart(e, b) => SavedAs(e.block_id) = {}
                  /\ SavedAs(b.block_id) # {}
            /\ ExactMatch(b) => IsReuse(b)

C3_Witness ==
    /\ pc = "done"
    /\ \E b \in Range(all_block_definitions) : ~ExactMatch(b) /\ StartMatch(b) /\ IsReplace(b)
    /\ \E b \in Range(all_block_definitions) : ExactMatch(b) /\ IsReuse(b)

\* C4 (replace lineage): the record saved for an overwriting block carries the
\* created_at of the old record with the same start, and an updated_at read
\* from the clock during this run, not earlier than the old updated_at.
C4_ReplaceLineage ==
    pc = "done" =>
        \A b \in Range(all_block_definitions) :
            IsReplace(b) =>
                \A r \in SavedAs(b.block_id) :
                    \A e \in Range(existing_blocks) :
                        SameStart(e, b) =>
                            /\ r.created_at = e.created_at
                            /\ r.updated_at > started_at
                            /\ r.updated_at <= now
                            /\ r.updated_at >= e.updated_at

C4_Witness ==
    /\ pc = "done"
    /\ \E b \in Range(all_block_definitions) :
          /\ IsReplace(b)
          /\ \E r \in SavedAs(b.block_id) : r.created_at < r.updated_at

\* C5 (garbage collection): a stored record whose start is the start of no
\* planned block is absent from the saved cache.
C5_GarbageCollection ==
    pc = "done" =>
        \A e \in Range(existing_blocks) :
            (\A b \in Range(all_block_definitions) : ~SameStart(e, b)) =>
                SavedAs(e.block_id) = {}

\* A block that used to stand on its own was absorbed by its predecessor: its
\* record is gone and the predecessor's record was regenerated.
C5_Witness ==
    /\ pc = "done"
    /\ \E e \in Range(existing_blocks) :
          /\ \A b \in Range(all_block_definitions) : ~SameStart(e, b)
          /\ \E b \in Range(all_block_definitions) :
                /\ IsReplace(b)
                /\ ToString(b.end_chapter) = e.end_chapter
                /\ ToString(b.start_chapter) # e.start_chapter
    /\ Len(cache_csv_file) = 1

\* C6 (reuse frame): a stored record whose block_id is the block_id of a
\* planned block is written back with only its updated_at changed.
C6_ReuseFrame ==
    pc = "done" =>
        \A b \in Range(all_block_definitions) :
            ExactMatch(b) =>
                LET e == GetBlock(existing_blocks, b.block_id)
                IN SavedAs(b.block_id) = {[e EXCEPT !.updated_at = now]}

\* C7 (fresh classification): every planned block is exactly one of reuse,
\* replace and fresh; it is fresh exactly when no stored record has its
\* block_id or its start; a fresh block is saved with created_at equal to
\* updated_at, read from the clock during this run.
C7_FreshClassification ==
    pc = "done" =>
        \A b \in Range(all_block_definitions) :
            /\ Cardinality({k \in {"reuse", "replace", "fresh"} :
                    \/ k = "reuse" /\ IsReuse(b)
                    \/ k = "replace" /\ IsReplace(b)
                    \/ k = "fresh" /\ IsFresh(b)}) = 1
            /\ IsFresh(b) <=> (~ExactMatch(b) /\ ~StartMatch(b))
            /\ IsFresh(b) =>
                  /\ SavedAs(b.block_id) # {}
                  /\ \A r \in SavedAs(b.block_id) :
                        /\ r.created_at = r.updated_at
                        /\ r.created_at > started_at
                        /\ r.created_at <= now

\* A block is generated as new although the cache holds other records.
C7_Witness ==
    /\ pc = "done"
    /\ existing_blocks # <<>>
    /\ \E b \in Range(all_block_definitions) : IsFresh(b)
    /\ \E b \in Range(all_block_definitions) : ~IsFresh(b)

\* C8 (tie-break on duplicate starts): when several stored records start where
\* a planned block without an exact match starts, the first of them in the
\* order of the cache is the one overwritten and all the others are dropped
\* from the saved cache.
C8_TieBreak ==
    pc = "done" =>
        \A b \in Range(all_block_definitions) :
            ~ExactMatch(b) =>
                LET same == SelectSeq(existing_blocks, LAMBDA e : SameStart(e, b))
                IN Len(same) > 1 =>
                      /\ \E n \in 1..Len(blocks_to_update) :
                            /\ blocks_to_update[n].new_block_def = b
                            /\ blocks_to_update[n].old_block_id = same[1].block_id
                      /\ \A i \in 1..Len(same) : SavedAs(same[i].block_id) = {}

\* The notes of the run that pass read_csv_file and group_by_chapters.
KeptRows ==
    SelectSeq(notes_csv, LAMBDA row :
        /\ row.markText \notin {"", " "}
        /\ row.chapterUid \in {"1", "2", "3"})

KeptChapters == {IntOf[KeptRows[i].chapterUid] : i \in 1..Len(KeptRows)}

Count(x, s) == Cardinality({i \in 1..Len(s) : s[i] = x})

PlannedNotes ==
    SelectSeq(Flatten([n \in 1..Len(all_block_definitions) |->
                          all_block_definitions[n].mark_notes_parts]),
              LAMBDA part : "title" \notin DOMAIN part)

\* C9 (planner coverage): the planned blocks are consecutive runs of the
\* sorted chapters, each chapter in exactly one block, and every kept note row
\* is in exactly one block, the block of its chapter.
C9_PlannerCoverage ==
    pc = "done" =>
        /\ Flatten([n \in 1..Len(all_block_definitions) |->
                      all_block_definitions[n].group_chapters])
              = SortedInts(KeptChapters)
        /\ \A n \in 1..Len(all_block_definitions) :
              LET b == all_block_definitions[n]
              IN /\ b.group_chapters # <<>>
                 /\ \A part \in Range(b.mark_notes_parts) :
                       "title" \notin DOMAIN part =>
                           IntOf[part.chapterUid] \in Range(b.group_chapters)
        /\ Len(PlannedNotes) = Len(KeptRows)
        /\ \A row \in Range(KeptRows) : Count(row, PlannedNotes) = Count(row, KeptRows)

\* Two blocks, one of them of several chapters, planned over notes of which
\* some row was not kept.
C9_Witness ==
    /\ pc = "done"
    /\ Len(all_block_definitions) >= 2
    /\ \E b \in Range(all_block_definitions) : Len(b.group_chapters) >= 2
    /\ Len(KeptRows) < Len(notes_csv)

\* The number of kept notes in a set of chapters.
QualifyingNotes(chapters) ==
    Cardinality({i \in 1..Len(KeptRows) : IntOf[KeptRows[i].chapterUid] \in chapters})

\* C10 (planner threshold): every block but the last reaches the minimum and
\* would not without its last chapter; no block is without qualifying notes.
C10_PlannerThreshold ==
    pc = "done" =>
        \A n \in 1..Len(all_block_definitions) :
            LET chapters == all_block_definitions[n].group_chapters
                but_last == SubSeq(chapters, 1, Len(chapters) - 1)
            IN /\ QualifyingNotes(Range(chapters)) >= 1
               /\ all_block_definitions[n].total_notes = QualifyingNotes(Range(chapters))
               /\ QualifyingNotes(Range(but_last)) < min_notes_per_group
               /\ n < Len(all_block_definitions) =>
                     QualifyingNotes(Range(chapters)) >= min_notes_per_group

\* A block that closed on reaching the minimum over several chapters, followed
\* by a last block below the minimum.
C10_Witness ==
    /\ pc = "done"
    /\ Len(all_block_definitions) >= 2
    /\ Len(all_block_definitions[1].group_chapters) >= 2
    /\ all_block_definitions[Len(all_block_definitions)].total_notes < min_notes_per_group

\* The boundaries of the planned blocks, by ordinal.
Boundaries(defs) ==
    [n \in 1..Len(defs) |->
        [group_idx |-> defs[n].group_idx,
         block_id |-> defs[n].block_id,
         start_chapter |-> defs[n].start_chapter,
         start_note_id |-> defs[n].start_note_id,
         end_chapter |-> defs[n].end_chapter,
         end_note_id |-> defs[n].end_note_id]]

WorkListIds ==
    BlockIds(blocks_to_generate)
    \cup {blocks_to_update[n].new_block_def.block_id : n \in 1..Len(blocks_to_update)}

\* C12 (generator only for replace and fresh): generate_outline is never
\* called for a block served from the cache; the blocks it is called for are
\* the blocks of blocks_to_generate and of blocks_to_update, each once.
C12_GeneratorOnlyForWork ==
    pc = "done" =>
        /\ \A n \in 1..Len(generate_calls) :
              generate_calls[n] \notin BlockIds(blocks_to_use_cache)
        /\ Range(generate_calls) = WorkListIds
        /\ Len(generate_calls) = Len(blocks_to_generate) + Len(blocks_to_update)
        /\ \A i, j \in 1..Len(generate_calls) :
              generate_calls[i] = generate_calls[j] => i = j

\* A run that served one block from the cache and called the generator for
\* another.
C12_Witness ==
    /\ pc = "done"
    /\ blocks_to_use_cache # <<>>
    /\ generate_calls # <<>>
    /\ \E b \in Range(all_block_definitions) : IsReuse(b)

\* The planned block of the n-th generate_outline call of the run.
WorkBlock(n) ==
    IF n <= Len(blocks_to_generate) THEN blocks_to_generate[n]
    ELSE blocks_to_update[n - Len(blocks_to_generate)].new_block_def

FailedCalls == {n \in 1..Len(new_blocks) : new_blocks[n].markdown.outcome = "failed"}

\* C13 (failure isolation): in a run in which the generation of a block
\* failed, every block to generate or to overwrite still has its record, made
\* from its own notes; the records are saved, the records carried over from
\* the cache keep their content, and the document has a section for every
\* saved record.
C13_FailureIsolation ==
    (pc = "done" /\ FailedCalls # {}) =>
        /\ Len(new_blocks) = Len(blocks_to_generate) + Len(blocks_to_update)
        /\ \A n \in 1..Len(new_blocks) :
              /\ new_blocks[n].block_id = WorkBlock(n).block_id
              /\ new_blocks[n].markdown.notes = WorkBlock(n).mark_notes_parts
              /\ new_blocks[n].html.notes = WorkBlock(n).mark_notes_parts
              /\ new_blocks[n].html.outcome = new_blocks[n].markdown.outcome
              /\ SavedAs(new_blocks[n].block_id) = {CsvRow(new_blocks[n])}
              /\ \E sec \in Range(all_markdown_parts_from_csv) :
                    /\ sec.markdown = new_blocks[n].markdown
                    /\ sec.html = new_blocks[n].html
        /\ ~save_failed
        /\ cache_exists
        /\ \A r \in Range(cache_csv_file) :
              r.block_id \notin BlockIds(new_blocks) =>
                 \E e \in Range(existing_blocks) :
                    /\ e.block_id = r.block_id
                    /\ e.markdown = r.markdown
                    /\ e.html = r.html
        /\ Len(all_markdown_parts_from_csv) = Len(cache_csv_file)

\* The first call of the run failed and a later one, for a block that
\* overwrites a stored record, was answered with accepted content.
C13_Witness ==
    /\ pc = "done"
    /\ blocks_to_generate # <<>>
    /\ blocks_to_update # <<>>
    /\ 1 \in FailedCalls
    /\ \E n \in 1..Len(new_blocks) :
          /\ n > Len(blocks_to_generate)
          /\ new_blocks[n].markdown.outcome = "ok"

\* C14 (bounded retry): generate_outline calls the client at most max_retries
\* times whatever the client answers or raises, the loop never goes on with
\* its counter used up, and the call ends by returning a dict with 'markdown'
\* and 'html'.
C14_BoundedRetry ==
    /\ [](generator.status # "none" =>
             /\ generator.calls <= generator.max_retries
             /\ generator.status = "calling" =>
                   /\ generator.attempt = generator.calls
                   /\ generator.attempt < generator.max_retries \/ generator.calls = 0
             /\ generator.status = "returned" =>
                   /\ generator.result.outcome \in Outcomes
                   /\ DOMAIN generator.result = {"outcome", "markdown", "html"}
                   /\ generator.result.outcome = "ok" <=>
                         /\ generator.calls > 0
                         /\ generator.responses[generator.calls] = "html")
    /\ <>(generator.status = "returned")

\* The client raised, answered with text that is no HTML and raised again:
\* the call returned the failure placeholder after max_retries = 3 attempts.
C14_Witness ==
    /\ generator.status = "returned"
    /\ generator.max_retries = 3
    /\ generator.calls = 3
    /\ generator.result.outcome = "failed"
    /\ generator.responses[1] = "error"
    /\ generator.responses[2] = "text"
    /\ generator.responses[3] = "error"

\* C15 (a corrupt cache aborts the run): a run in which reading the cache
\* file raised makes no generate_outline call, does not return normally and
\* leaves the cache file as it found it.
C15_CorruptStoreAborts ==
    load_failed =>
        /\ generate_calls = <<>>
        /\ pc # "done"
        /\ cache_csv_file = cache_at_start

\* The cache file is what it was when the run started, or all the rows the
\* run set out to write.
LastGoodOrComplete ==
    \/ cache_csv_file = cache_at_start /\ cache_exists = cache_existed
    \/ cache_csv_file = all_blocks_to_save /\ cache_exists

\* C16 (atomic save): after a run, however it ended, the cache file is the
\* complete file of before the run or the complete file the run set out to
\* write, never a part of it.
C16_AtomicSave ==
    pc \in {"done", "interrupted"} => LastGoodOrComplete

\* C17 (cancellation): after a KeyboardInterrupt the cache file is the file of
\* the start of the run or the complete new file, and no generated result
\* that the run had not yet merged is in it.
C17_CancellationLastGood ==
    pc = "interrupted" => LastGoodOrComplete

\* C18 (a failed save is fatal): a run whose save raised does not return
\* normally and assembles no document.
C18_SaveFailureFatal ==
    save_failed =>
        /\ pc # "done"
        /\ all_markdown_parts_from_csv = <<>>

\* C19 (cold start): a run that finds no cache file loads an empty cache
\* without an error, classifies every planned block as new, generates each
\* of them, saves them all and assembles a document with a section for each.
C19_ColdStart ==
    (pc = "done" /\ ~cache_existed) =>
        /\ ~load_failed
        /\ existing_blocks = <<>>
        /\ blocks_to_use_cache = <<>>
        /\ blocks_to_update = <<>>
        /\ \A b \in Range(all_block_definitions) : IsFresh(b)
        /\ generate_calls =
              [n \in 1..Len(all_block_definitions) |-> all_block_definitions[n].block_id]
        /\ BlockIds(new_blocks) = BlockIds(all_block_definitions)
        /\ ~save_failed
        /\ cache_exists
        /\ BlockIds(cache_csv_file) = BlockIds(all_block_definitions)
        /\ Len(cache_csv_file) = Len(all_block_definitions)
        /\ Len(all_markdown_parts_from_csv) = Len(all_block_definitions)

\* The first run of a book with two blocks: there was no cache file, now
\* there is one with both blocks.
C19_Witness ==
    /\ pc = "done"
    /\ ~cache_existed
    /\ runs = 1
    /\ Len(all_block_definitions) >= 2
    /\ Len(cache_csv_file) = Len(all_block_definitions)

\* (start_chapter, start_note_id) of record a comes before that of record b:
\* the chapters compared as numbers, the note ids as strings.
StartsBefore(a, b) ==
    \/ IntOf[a.start_chapter] < IntOf[b.start_chapter]
    \/ /\ IntOf[a.start_chapter] = IntOf[b.start_chapter]
       /\ StrRank(a.start_note_id) < StrRank(b.start_note_id)

\* C20 (assembly ordering): the sections of the document are numbered 1..N in
\* the order of the records they are built from, and the records are strictly
\* increasing in (start_chapter, start_note_id), in whatever order the cache
\* file held them.
C20_AssemblyOrdering ==
    pc = "done" =>
        /\ Len(all_markdown_parts_from_csv) = Len(all_blocks_sorted)
        /\ \A n \in 1..Len(all_blocks_sorted) :
              /\ all_markdown_parts_from_csv[n].group_idx_from_csv = n
              /\ all_markdown_parts_from_csv[n].markdown = all_blocks_sorted[n].markdown
        /\ \A n \in 1..(Len(all_blocks_sorted) - 1) :
              StartsBefore(all_blocks_sorted[n], all_blocks_sorted[n + 1])

\* C21 (assembly from the saved cache): the document has exactly one section
\* per record of the cache file as the run left it, also when the run
\* generated nothing; each section carries the markdown and html of its
\* record; the number of a section is the group_idx of the planned block with
\* the block_id of its record.
C21_AssemblyFromStore ==
    pc = "done" =>
        /\ Len(all_markdown_parts_from_csv) = Len(cache_csv_file)
        /\ Len(all_blocks_sorted) = Len(cache_csv_file)
        /\ \A r \in Range(cache_csv_file) :
              Cardinality({n \in 1..Len(all_blocks_sorted) : all_blocks_sorted[n] = r}) = 1
        /\ \A n \in 1..Len(all_blocks_sorted) :
              /\ all_markdown_parts_from_csv[n].markdown = all_blocks_sorted[n].markdown
              /\ all_markdown_parts_from_csv[n].html = all_blocks_sorted[n].html
              /\ \E b \in Range(all_block_definitions) :
                    /\ b.block_id = all_blocks_sorted[n].block_id
                    /\ b.group_idx = all_markdown_parts_from_csv[n].group_idx_from_csv

\* The four boundary fields of a planned block (which has a group_idx and
\* whose chapters are numbers) or of a stored record, the chapters as written
\* in the cache file.
BoundaryFields(x) ==
    IF "group_idx" \in DOMAIN x
    THEN <<ToString(x.start_chapter), x.start_note_id,
           ToString(x.end_chapter), x.end_note_id>>
    ELSE <<x.start_chapter, x.start_note_id, x.end_chapter, x.end_note_id>>

\* C22 (identity equality): among the planned blocks and the stored records
\* of a run, two have the same block_id exactly when their four boundary
\* fields are the same, also for note ids that contain "-"; a planned block
\* served from the cache has the boundary fields of the stored record.
C22_IdentityEquality ==
    pc = "done" =>
        /\ \A x, y \in Range(all_block_definitions) \cup Range(existing_blocks) :
              x.block_id = y.block_id <=> BoundaryFields(x) = BoundaryFields(y)
        /\ \A b \in Range(all_block_definitions) :
              IsReuse(b) =>
                 BoundaryFields(GetBlock(existing_blocks, b.block_id)) = BoundaryFields(b)

\* A note whose ordering key does not parse: chapterUid is not an integer or
\* createTime is not a number.
Unparseable(row) ==
    \/ ~IsDigit(Strip(row.chapterUid))
    \/ ~IsDigit(Strip(row.createTime))

\* The notes of a planned block.
BlockNotes(block_def) ==
    SelectSeq(block_def.mark_notes_parts, LAMBDA part : "title" \notin DOMAIN part)

\* C25 (planner input anomalies): a note whose chapterUid or createTime does
\* not parse is in no planned block, and the start and the end of every
\* block are ids of notes whose keys parse.
C25_PlannerAnomalies ==
    pc = "done" =>
        \A b \in Range(all_block_definitions) :
            /\ \A row \in Range(BlockNotes(b)) : ~Unparseable(row)
            /\ \A id \in {b.start_note_id, b.end_note_id} :
                  \E row \in Range(BlockNotes(b)) :
                     ~Unparseable(row) /\ NoteIdOf(row) = id

\* The attempts of the call so far whose response was HTML that passes
\* _validate_and_clean_html.
ValidAttempts == {n \in 1..generator.calls : generator.responses[n] = "html"}

\* C26 (retry outcome): generate_outline returns the outline only from an
\* attempt whose response passed the validation, and it is the first such
\* attempt and the last call made; it returns the failure placeholder only
\* after max_retries attempts that all raised or failed the validation, and
\* the placeholder carries the error, not the text of an outline.
C26_RetryOutcome ==
    generator.status = "returned" =>
        /\ generator.result.outcome = "ok" =>
              /\ ValidAttempts = {generator.calls}
              /\ generator.result = OutlineResult("ok", "html")
        /\ generator.result.outcome = "failed" =>
              /\ ValidAttempts = {}
              /\ generator.calls = generator.max_retries
              /\ generator.result.markdown.text \in {"text", "error", ""}
              /\ generator.result # OutlineResult("ok", generator.result.markdown.text)
        /\ generator.result.outcome \in {"ok", "failed"}

\* The second attempt was the first valid one: the call returned its outline
\* and the third response, valid too, was never asked for.
C26_Witness ==
    /\ generator.status = "returned"
    /\ generator.result.outcome = "ok"
    /\ generator.max_retries = 3
    /\ generator.calls = 2
    /\ generator.responses[1] = "text"
    /\ generator.responses[3] = "html"

\* The block_ids of the stored records that the run overwrites.
OverwrittenIds == {blocks_to_update[n].old_block_id : n \in 1..Len(blocks_to_update)}

\* C27 (boundary fields from their own columns): a stored record whose
\* start_note_id contains "-" is matched by the planned block with its start
\* chapter and start note id: the block is served from the cache or
\* overwrites, it is not generated as new, and the record is written back or
\* overwritten, not dropped as obsolete.
C27_BoundaryColumns ==
    pc = "done" =>
        \A e \in Range(existing_blocks) :
            e.start_note_id = "1-1-1" =>
                \A b \in Range(all_block_definitions) :
                    SameStart(e, b) =>
                        /\ IsReuse(b) \/ IsReplace(b)
                        /\ ~IsFresh(b)
                        /\ SavedAs(e.block_id) # {} \/ e.block_id \in OverwrittenIds

\* A record that starts at the note "1-1-1" was overwritten by a block that
\* starts there and ends elsewhere.
C27_Witness ==
    /\ pc = "done"
    /\ \E e \in Range(existing_blocks), b \in Range(all_block_definitions) :
          /\ e.start_note_id = "1-1-1"
          /\ SameStart(e, b)
          /\ IsReplace(b)
          /\ e.block_id \in OverwrittenIds
          /\ BoundaryFields(e) # BoundaryFields(b)

\* C28 (the cache mirrors the plan): after a run of a history that started
\* without a cache, the block_ids of the saved cache are the block_ids of the
\* blocks the run planned, and no two saved records have the same
\* (start_chapter, start_note_id).
C28_StoreMirrorsPlan ==
    pc = "done" =>
        /\ BlockIds(cache_csv_file) = BlockIds(all_block_definitions)
        /\ \A i, j \in 1..Len(cache_csv_file) :
              (/\ cache_csv_file[i].start_chapter = cache_csv_file[j].start_chapter
               /\ cache_csv_file[i].start_note_id = cache_csv_file[j].start_note_id)
                 => i = j

\* C29 (failed blocks are cached): in a run that loads and saves the cache
\* without an error, a planned block with the four boundary fields of a
\* stored failure placeholder is served from the cache, generate_outline is
\* not called for it, and the placeholder is written back and is a section
\* of the document.
C29_FailedBlocksCached ==
    (pc = "done" /\ ~load_failed /\ ~save_failed) =>
        \A e \in Range(existing_blocks) :
            e.markdown.outcome = "failed" =>
                \A b \in Range(all_block_definitions) :
                    BoundaryFields(b) = BoundaryFields(e) =>
                        /\ IsReuse(b)
                        /\ ~IsReplace(b) /\ ~IsFresh(b)
                        /\ b.block_id \notin Range(generate_calls)
                        /\ \E r \in Range(cache_csv_file) :
                              /\ r.block_id = e.block_id
                              /\ r.markdown = e.markdown
                              /\ r.html = e.html
                        /\ \E sec \in Range(all_markdown_parts_from_csv) :
                              /\ sec.markdown = e.markdown
                              /\ sec.html = e.html

\* The third run, after a note was removed: the placeholder saved by the
\* first run was served from the cache by the second and is served again,
\* next to a block that was generated with success, and no call was made.
C29_Witness ==
    /\ pc = "done"
    /\ runs = 3
    /\ edits > 0
    /\ ~load_failed /\ ~save_failed
    /\ generate_calls = <<>>
    /\ \E e \in Range(existing_blocks), b \in Range(all_block_definitions) :
          /\ e.markdown.outcome = "failed"
          /\ BoundaryFields(b) = BoundaryFields(e)
          /\ IsReuse(b)
          /\ e.created_at < e.updated_at
    /\ \E e \in Range(existing_blocks) : e.markdown.outcome = "ok"

\* The tasks of the run that are in a given state.
TasksIn(state) ==
    {i \in 1..Len(guidebook.tasks) : guidebook.tasks[i].state = state}

\* C23 (concurrency bound): at every moment of process_guidebook_async the
\* number of generate_explanation_async calls that have started and not ended
\* is at most the concurrency the run was given, however many notes are
\* pending.
C23_ConcurrencyBound ==
    guidebook.status = "gathering" =>
        /\ Cardinality(TasksIn("calling")) <= guidebook.concurrency
        /\ guidebook.semaphore = guidebook.concurrency - Cardinality(TasksIn("calling"))

\* Three notes are pending under a concurrency of 2: two calls are in flight
\* and the third task waits for the semaphore.
C23_Witness ==
    /\ guidebook.status = "gathering"
    /\ guidebook.concurrency = 2
    /\ Len(guidebook.tasks) = 3
    /\ Cardinality(TasksIn("calling")) = 2
    /\ Cardinality(TasksIn("waiting")) = 1

\* The rows that the run appended to the output file.
AppendedRows ==
    SubSeq(guidebook.output_file,
           Len(guidebook.output_file) - Len(guidebook.tasks) + 1,
           Len(guidebook.output_file))

\* Every task of the run is waiting, calling or done; a task that is done has
\* the one result of its own call, whatever the other calls returned.
TasksIndependent ==
    /\ guidebook.status \in {"idle", "gathering", "done"}
    /\ \A i \in 1..Len(guidebook.tasks) :
          /\ guidebook.tasks[i].state \in {"waiting", "calling", "done"}
          /\ guidebook.tasks[i].state = "done" <=>
                Cardinality({k \in 1..Len(guidebook.completed) :
                                guidebook.completed[k] = i}) = 1
          /\ guidebook.tasks[i].state = "done" =>
                /\ guidebook.tasks[i].result[1] = guidebook.note_indices[i]
                /\ guidebook.tasks[i].result[2].of =
                      Strip(guidebook.valid_notes[i].markText)
    /\ Len(guidebook.completed) = Cardinality(TasksIn("done"))

\* After the run every task has ended, and the row appended for a note holds
\* the result of the call made for that note.
ResultsByIdentity ==
    (guidebook.status = "done" /\ guidebook.tasks # <<>>) =>
        /\ TasksIn("done") = 1..Len(guidebook.tasks)
        /\ Len(guidebook.output_file) >= Len(guidebook.tasks)
        /\ \A i \in 1..Len(guidebook.tasks) :
              LET row == AppendedRows[i]
                  note == guidebook.valid_notes[i]
              IN /\ row.bookmarkId = Strip(note.bookmarkId)
                 /\ row.markText = Strip(note.markText)
                 /\ row.explanation = guidebook.tasks[i].result[2]
                 /\ row.explanation.of = Strip(note.markText)
                 /\ row.markTextIndex = guidebook.note_indices[i]
                 /\ Strip(guidebook.notes[row.markTextIndex].bookmarkId) = row.bookmarkId
        /\ \A row \in Range(guidebook.output_file) :
              row.explanation.of = GuidebookNote(row.bookmarkId).markText

\* C24 (independence of the batch calls): with a concurrency of at least 1,
\* in any interleaving and order of completion, every call that was
\* submitted ends with exactly one result and the run goes on to write the
\* rows; a call that fails cancels no other call; every result, explanation
\* or error text, is in the row of the note it was made for.
C24_BatchIndependence ==
    /\ [](guidebook.status # "none" => TasksIndependent /\ ResultsByIdentity)
    /\ (guidebook.status = "gathering" /\ guidebook.concurrency >= 1)
          ~> (guidebook.status = "done")

\* A run after which one note was already in the output: of the two calls
\* made, the second ended first and failed, the first ended after it with
\* an explanation.
C24_Witness ==
    /\ guidebook.status = "done"
    /\ guidebook.existing_bookmark_ids # {}
    /\ Len(guidebook.tasks) = 2
    /\ guidebook.note_indices[1] # 1
    /\ guidebook.completed = <<2, 1>>
    /\ guidebook.tasks[2].result[2].outcome = "error"
    /\ guidebook.tasks[1].result[2].outcome = "ok"

\* C30: after every run of process_guidebook_async the output file holds at
\* most one row for a bookmarkId, every row's bookmarkId occurs in the notes
\* the run read, and no call was made for a note that the output already held.
C30_OutputInvariant ==
    guidebook.status = "done" =>
        LET before == SubSeq(guidebook.output_file, 1,
                             Len(guidebook.output_file) - Len(guidebook.tasks))
        IN /\ \A m, n \in 1..Len(guidebook.output_file) :
                 guidebook.output_file[m].bookmarkId = guidebook.output_file[n].bookmarkId
                    => m = n
           /\ \A n \in 1..Len(guidebook.output_file) :
                 guidebook.output_file[n].bookmarkId \in InputBookmarkIds(guidebook.notes)
           /\ \A i \in 1..Len(guidebook.valid_notes) :
                 Strip(guidebook.valid_notes[i].bookmarkId) \notin InputBookmarkIds(before)

========================
